---- MODULE Spec2Model ----
(***************************************************************************)
(* Model of ESP32_Codes/scripts/load_env.py: the build-time loader that    *)
(* parses <project>/.env and appends compile-time defines to the build     *)
(* environment.                                                            *)
(*                                                                         *)
(* Text is a sequence of tokens.  A token is a one-character string, or a  *)
(* word of ordinary characters (none of them whitespace, a quote, '#',    *)
(* '=', a sign, '_' or a digit) that the code never looks inside.          *)
(* Dictionary keys are the concatenation of their tokens, so that          *)
(* <<"WIFI_SSID", "1">> and <<"WIFI_SSID1">> name the same key, as they do *)
(* in Python.                                                              *)
(***************************************************************************)
EXTENDS Integers, Sequences, FiniteSets, TLC

VARIABLES envFile, pc, idx, data, WIFI_SLOTS_MAX, i, CPPDEFINES

vars == <<envFile, pc, idx, data, WIFI_SLOTS_MAX, i, CPPDEFINES>>

-----------------------------------------------------------------------------
(* Bounds of the input space *)

\* longest line of the exhaustively enumerated one-line files
MaxLen == 4
\* most lines in a file made of configuration lines
MaxLines == 2

-----------------------------------------------------------------------------
(* Python string primitives *)

\* str.strip() with no argument removes whitespace
Whitespace == {" ", "\t"}

Digits == {"0", "1", "2", "3", "4", "5", "6", "7", "8", "9"}

DigitVal(c) ==
    CASE c = "0" -> 0 [] c = "1" -> 1 [] c = "2" -> 2 [] c = "3" -> 3
      [] c = "4" -> 4 [] c = "5" -> 5 [] c = "6" -> 6 [] c = "7" -> 7
      [] c = "8" -> 8 [] c = "9" -> 9

RECURSIVE lstrip(_, _)
lstrip(s, chars) ==
    IF s = <<>> THEN <<>>
    ELSE IF Head(s) \in chars THEN lstrip(Tail(s), chars) ELSE s

RECURSIVE rstrip(_, _)
rstrip(s, chars) ==
    IF s = <<>> THEN <<>>
    ELSE IF s[Len(s)] \in chars THEN rstrip(SubSeq(s, 1, Len(s) - 1), chars) ELSE s

\* str.strip(chars): every leading and every trailing character that is in chars
strip(s, chars) == rstrip(lstrip(s, chars), chars)

startswith(s, c) == s # <<>> /\ Head(s) = c

contains(s, c) == \E p \in 1..Len(s) : s[p] = c

RECURSIVE find(_, _, _)
\* str.find scanning from position p: the first index holding c, 0 if none
find(s, c, p) ==
    IF p > Len(s) THEN 0
    ELSE IF s[p] = c THEN p ELSE find(s, c, p + 1)

splitAtLast(s, c) ==
    LET ps == {p \in 1..Len(s) : s[p] = c}
        q  == CHOOSE p \in ps : \A r \in ps : r <= p
    IN  <<SubSeq(s, 1, q - 1), SubSeq(s, q + 1, Len(s))>>

\* s.split(c, 1) for s containing c: the text before and after the first c
split1(s, c) ==
    LET q == find(s, c, 1)
    IN  <<SubSeq(s, 1, q - 1), SubSeq(s, q + 1, Len(s))>>

RECURSIVE Join(_)
\* the Python string a token sequence spells
Join(s) == IF s = <<>> THEN "" ELSE Head(s) \o Join(Tail(s))

\* dict.get(key, default)
getIgnoringDefault(d, key, default) == IF key \in DOMAIN d THEN d[key] ELSE <<>>

get(d, key, default) == IF key \in DOMAIN d THEN d[key] ELSE default

setdefault(d, key, v) ==
    [k \in DOMAIN d \cup {key} |-> IF k \in DOMAIN d THEN d[k] ELSE v]

\* d[key] = v
setitem(d, key, v) ==
    [k \in DOMAIN d \cup {key} |-> IF k = key THEN v ELSE d[k]]

\* int(s) succeeds: optional surrounding whitespace, optional sign, then
\* digits with single underscores allowed between digits
intOk(s) ==
    LET t    == strip(s, Whitespace)
        body == IF t # <<>> /\ Head(t) \in {"+", "-"} THEN Tail(t) ELSE t
    IN  /\ body # <<>>
        /\ \A p \in 1..Len(body) : body[p] \in Digits \cup {"_"}
        /\ body[1] \in Digits
        /\ body[Len(body)] \in Digits
        /\ \A p \in 1..(Len(body) - 1) : ~(body[p] = "_" /\ body[p + 1] = "_")

RECURSIVE digitsVal(_, _)
digitsVal(s, acc) ==
    IF s = <<>> THEN acc
    ELSE IF Head(s) = "_" THEN digitsVal(Tail(s), acc)
    ELSE digitsVal(Tail(s), 10 * acc + DigitVal(Head(s)))

\* the value of int(s) when it succeeds
intVal(s) ==
    LET t == strip(s, Whitespace)
    IN  IF Head(t) = "-" THEN 0 - digitsVal(Tail(t), 0)
        ELSE IF Head(t) = "+" THEN digitsVal(Tail(t), 0)
        ELSE digitsVal(t, 0)

-----------------------------------------------------------------------------
(* _parse_env_file, one line *)

skipsAnyHash(line) == line = <<>> \/ contains(line, "#") \/ ~contains(line, "=")

\* the line (already stripped) is skipped by the two `continue` tests
skips(line) == line = <<>> \/ startswith(line, "#") \/ ~contains(line, "=")

\* k = k.strip()
keyOf(line) == Join(strip(split1(line, "=")[1], Whitespace))

\* v = v.strip().strip('"').strip("'")
valueOf(line) ==
    strip(strip(strip(split1(line, "=")[2], Whitespace), {"\""}), {"'"})

\* the body of the for loop applied to one raw line
parseLine(d, raw) ==
    LET line == strip(raw, Whitespace)
    IN  IF skips(line) THEN d
        ELSE setitem(d, keyOf(line), valueOf(line))

-----------------------------------------------------------------------------
(* define_str / define_int: the entry appended to CPPDEFINES *)

\* f'\\"{val}\\"': backslash, double quote, the value, backslash, double quote
fstring(val) == <<"\\", "\"">> \o val \o <<"\\", "\"">>

define_str(key, default) ==
    [key |-> key, val |-> fstring(get(data, key, default))]

define_int_quoted(key, default) ==
    [key |-> key, val |-> fstring(get(data, key, default))]

define_int(key, default) ==
    [key |-> key, val |-> get(data, key, default)]

\* f"WIFI_SSID{i}", f"WIFI_PASS{i}"
ssidKey(n) == "WIFI_SSID" \o ToString(n)
passKey(n) == "WIFI_PASS" \o ToString(n)

rangeExclusive(n) == 1..(n - 1)

\* range(1, WIFI_SLOTS_MAX + 1)
slotRange(n) == 1..n

\* default of vars.get("WIFI_SLOTS_MAX", "10")
SlotsDefault == <<"1", "0">>

\* the defaults of the fixed keys
MqttHostOfflineDefault == <<"192.168.31.108">>
MqttPortDefault == <<"1", "8", "8", "3">>
BackendHostDefault == <<"192.168.31.108">>
BackendPortDefault == <<"5", "0", "0", "0">>
DeviceIdDefault == <<"esp32_001">>

existingMacrosNoDevice ==
    << define_str("MQTT_HOST_ONLINE", get(data, "MQTT_HOST_ONLINE", <<>>)),
       define_str("MQTT_HOST_OFFLINE", get(data, "MQTT_HOST_OFFLINE", MqttHostOfflineDefault)),
       define_int("MQTT_PORT", get(data, "MQTT_PORT", MqttPortDefault)),
       define_str("BACKEND_BASE", get(data, "BACKEND_BASE", <<>>)),
       define_str("BACKEND_HOST", get(data, "BACKEND_HOST", BackendHostDefault)),
       define_int("BACKEND_PORT", get(data, "BACKEND_PORT", BackendPortDefault)) >>

\* the seven defines of the "Existing macros" section, in order
existingMacros ==
    << define_str("MQTT_HOST_ONLINE", get(data, "MQTT_HOST_ONLINE", <<>>)),
       define_str("MQTT_HOST_OFFLINE", get(data, "MQTT_HOST_OFFLINE", MqttHostOfflineDefault)),
       define_int("MQTT_PORT", get(data, "MQTT_PORT", MqttPortDefault)),
       define_str("BACKEND_BASE", get(data, "BACKEND_BASE", <<>>)),
       define_str("BACKEND_HOST", get(data, "BACKEND_HOST", BackendHostDefault)),
       define_int("BACKEND_PORT", get(data, "BACKEND_PORT", BackendPortDefault)),
       define_str("DEVICE_ID", get(data, "DEVICE_ID", DeviceIdDefault)) >>

-----------------------------------------------------------------------------
(* The .env files considered *)

\* characters of the exhaustively enumerated lines
Chars == {" ", "#", "=", "\"", "'", "a"}

CharLines == UNION {[1..n -> Chars] : n \in 0..MaxLen}

\* configuration lines over the keys the loader reads
KeyLines ==
    { <<"WIFI_SLOTS_MAX", "=", "3">>,
      <<"WIFI_SLOTS_MAX", "=">>,
      <<"WIFI_SLOTS_MAX", "=", "a">>,
      <<"WIFI_SLOTS_MAX", "=", "-", "1">>,
      <<"WIFI_SLOTS_MAX", " ", "=", " ", "'", "0", "'">>,
      <<"WIFI_SSID", "=", "Explicit">>,
      <<"WIFI_SSID", "=">>,
      <<"WIFI_SSID1", "=", "Slot1Net">>,
      <<" ", "WIFI_SSID1", " ", "=", "\t", "\"", "MyNet", "\"", " ">>,
      <<"WIFI_SSID2", "=", "Net2">>,
      <<"WIFI_SSID4", "=", "Net4">>,
      <<"WIFI_PASS", "=", "pw">>,
      <<"WIFI_PASS", "=", "\"", "\"">>,
      <<"WIFI_PASS1", "=", "a", "=", "b">>,
      <<"MQTT_PORT", "=", "abc">>,
      <<"BACKEND_PORT", "=", "\"", "8", "0", "\"">>,
      <<"BACKEND_PORT", "=", "x">>,
      <<"DEVICE_ID", "=", "\"", "a", "#", "b", "\"">>,
      <<"MQTT_HOST_OFFLINE", "=", "10.0.0.2">>,
      <<"BACKEND_BASE", "=", "http://api">>,
      <<"#", "WIFI_SSID", "=", "Hidden">>,
      <<"WIFI_SSID">> }

KeyFiles == UNION {[1..n -> KeyLines] : n \in 0..MaxLines}

\* exists: path.exists(); lines: path.read_text(...).splitlines()
EnvFiles ==
    {[exists |-> FALSE, lines |-> <<>>]}
      \cup {[exists |-> TRUE, lines |-> <<l>>] : l \in CharLines}
      \cup {[exists |-> TRUE, lines |-> ls] : ls \in KeyFiles}

-----------------------------------------------------------------------------
(* The script, top to bottom *)

Init ==
    /\ envFile \in EnvFiles
    /\ pc = "parse"
    /\ idx = 1
    /\ data = [k \in {} |-> <<>>]
    /\ WIFI_SLOTS_MAX = 0
    /\ i = 0
    /\ CPPDEFINES = <<>>

\* if not path.exists(): return data
ParseMissing ==
    /\ pc = "parse"
    /\ ~envFile.exists
    /\ pc' = "slots_max"
    /\ UNCHANGED <<envFile, idx, data, WIFI_SLOTS_MAX, i, CPPDEFINES>>

\* one iteration of the for loop over the lines
ParseLine ==
    /\ pc = "parse"
    /\ envFile.exists
    /\ idx <= Len(envFile.lines)
    /\ data' = parseLine(data, envFile.lines[idx])
    /\ idx' = idx + 1
    /\ UNCHANGED <<envFile, pc, WIFI_SLOTS_MAX, i, CPPDEFINES>>

\* the loop is exhausted: return data; vars = _parse_env_file(env_path)
ParseReturn ==
    /\ pc = "parse"
    /\ envFile.exists
    /\ idx > Len(envFile.lines)
    /\ pc' = "slots_max"
    /\ UNCHANGED <<envFile, idx, data, WIFI_SLOTS_MAX, i, CPPDEFINES>>

\* WIFI_SLOTS_MAX = int(vars.get("WIFI_SLOTS_MAX", "10")); int raises
\* ValueError on text that is no integer and the script ends there
ReadSlotsMax ==
    /\ pc = "slots_max"
    /\ LET s == get(data, "WIFI_SLOTS_MAX", SlotsDefault)
       IN  IF intOk(s)
           THEN /\ WIFI_SLOTS_MAX' = intVal(s)
                /\ i' = 1
                /\ pc' = "slots"
           ELSE /\ pc' = "error"
                /\ UNCHANGED <<WIFI_SLOTS_MAX, i>>
    /\ UNCHANGED <<envFile, idx, data, CPPDEFINES>>

\* one iteration of for i in range(1, WIFI_SLOTS_MAX + 1)
SlotLoop ==
    /\ pc = "slots"
    /\ i \in slotRange(WIFI_SLOTS_MAX)
    /\ CPPDEFINES' = CPPDEFINES \o <<define_str(ssidKey(i), <<>>),
                                     define_str(passKey(i), <<>>)>>
    /\ i' = i + 1
    /\ UNCHANGED <<envFile, pc, idx, data, WIFI_SLOTS_MAX>>

\* after the loop: the legacy WIFI_SSID / WIFI_PASS pair
Legacy ==
    /\ pc = "slots"
    /\ i \notin slotRange(WIFI_SLOTS_MAX)
    /\ LET ssid_legacy == get(data, "WIFI_SSID", <<>>)
           pass_legacy == get(data, "WIFI_PASS", <<>>)
           ssid1 == get(data, "WIFI_SSID1", <<>>)
           pass1 == get(data, "WIFI_PASS1", <<>>)
       IN  CPPDEFINES' = CPPDEFINES \o
             << define_str("WIFI_SSID", IF ssid_legacy # <<>> THEN ssid_legacy ELSE ssid1),
                define_str("WIFI_PASS", IF pass_legacy # <<>> THEN pass_legacy ELSE pass1) >>
    /\ pc' = "existing"
    /\ UNCHANGED <<envFile, idx, data, WIFI_SLOTS_MAX, i>>

\* the "Existing macros" section; the script ends after it
ExistingMacros ==
    /\ pc = "existing"
    /\ CPPDEFINES' = CPPDEFINES \o existingMacros
    /\ pc' = "done"
    /\ UNCHANGED <<envFile, idx, data, WIFI_SLOTS_MAX, i>>

Next ==
    \/ ParseMissing
    \/ ParseLine
    \/ ParseReturn
    \/ ReadSlotsMax
    \/ SlotLoop
    \/ Legacy
    \/ ExistingMacros

Spec == Init /\ [][Next]_vars

-----------------------------------------------------------------------------
(* Properties *)

Count(s, c) == Cardinality({p \in 1..Len(s) : s[p] = c})

\* positions of CPPDEFINES that define key
Defs(key) == {p \in 1..Len(CPPDEFINES) : CPPDEFINES[p].key = key}

\* a value wrapped in escaped double quotes
Quoted(v) == <<"\\", "\"">> \o v \o <<"\\", "\"">>

\* the line the parser processed last, stripped
LastLine == strip(envFile.lines[idx - 1], Whitespace)

Processed == envFile.exists /\ idx > 1

Returned == pc # "parse"

\* removal of one pair of matching quotes around v, if there is one
UnquoteOnce(v) ==
    IF Len(v) >= 2 /\ v[1] = v[Len(v)] /\ v[1] \in {"\"", "'"}
    THEN SubSeq(v, 2, Len(v) - 1)
    ELSE v

\* the documented defaults of the fixed keys
FixedKeys ==
    {"MQTT_HOST_ONLINE", "MQTT_HOST_OFFLINE", "MQTT_PORT", "BACKEND_BASE",
     "BACKEND_HOST", "BACKEND_PORT", "DEVICE_ID"}

IntKeys == {"MQTT_PORT", "BACKEND_PORT"}

LegacyKeys == {"WIFI_SSID", "WIFI_PASS"}

DocumentedDefault(k) ==
    CASE k = "MQTT_HOST_ONLINE" -> <<>>
      [] k = "MQTT_HOST_OFFLINE" -> <<"192.168.31.108">>
      [] k = "MQTT_PORT" -> <<"1", "8", "8", "3">>
      [] k = "BACKEND_BASE" -> <<>>
      [] k = "BACKEND_HOST" -> <<"192.168.31.108">>
      [] k = "BACKEND_PORT" -> <<"5", "0", "0", "0">>
      [] k = "DEVICE_ID" -> <<"esp32_001">>

\* C1: for every accepted line the table holds, under the trimmed key, the
\* trimmed value with exactly one pair of matching quotes removed, and the
\* value unchanged when the quotes do not match.
C1_SingleLayerUnquote ==
    (Processed /\ ~skips(LastLine)) =>
        data[keyOf(LastLine)] =
            UnquoteOnce(strip(split1(LastLine, "=")[2], Whitespace))

\* C2: no run of the loader ends in an error, whatever the .env file holds.
C2_NeverErrors == pc # "error"

\* C3: a completed run has defined WIFI_SSID{n} and WIFI_PASS{n} exactly once
\* for each n in 1..N and for no other index, N being the WIFI_SLOTS_MAX of
\* the table (10 when absent), each with the table's value or "".
C3_SlotDefines ==
    pc = "done" =>
        LET N == WIFI_SLOTS_MAX
            slotDefs == {p \in 1..Len(CPPDEFINES) :
                            CPPDEFINES[p].key \notin LegacyKeys \cup FixedKeys}
        IN  /\ "WIFI_SLOTS_MAX" \notin DOMAIN data => N = 10
            /\ get(data, "WIFI_SLOTS_MAX", <<>>) = <<"3">> => N = 3
            /\ get(data, "WIFI_SLOTS_MAX", <<>>) = <<"0">> => N = 0
            /\ get(data, "WIFI_SLOTS_MAX", <<>>) = <<"-", "1">> => N = 0 - 1
            /\ \A n \in 1..N :
                 /\ Cardinality(Defs(ssidKey(n))) = 1
                 /\ Cardinality(Defs(passKey(n))) = 1
                 /\ \A p \in Defs(ssidKey(n)) :
                      CPPDEFINES[p].val = Quoted(get(data, ssidKey(n), <<>>))
                 /\ \A p \in Defs(passKey(n)) :
                      CPPDEFINES[p].val = Quoted(get(data, passKey(n), <<>>))
            /\ Cardinality(slotDefs) = 2 * Cardinality(1..N)

C3_Witness ==
    /\ pc = "done"
    /\ DOMAIN data = {"WIFI_SLOTS_MAX"}
    /\ data["WIFI_SLOTS_MAX"] = <<"3">>
    /\ Len(CPPDEFINES) = 15

\* C4: the legacy WIFI_SSID (WIFI_PASS) define carries the table's WIFI_SSID
\* (WIFI_PASS) when present and non-empty, and the table's WIFI_SSID1
\* (WIFI_PASS1), or "", otherwise.
C4_LegacyFallback ==
    pc = "done" =>
        /\ Defs("WIFI_SSID") # {}
        /\ Defs("WIFI_PASS") # {}
        /\ \A p \in Defs("WIFI_SSID") :
             CPPDEFINES[p].val =
                 Quoted(IF get(data, "WIFI_SSID", <<>>) # <<>>
                        THEN data["WIFI_SSID"]
                        ELSE get(data, "WIFI_SSID1", <<>>))
        /\ \A p \in Defs("WIFI_PASS") :
             CPPDEFINES[p].val =
                 Quoted(IF get(data, "WIFI_PASS", <<>>) # <<>>
                        THEN data["WIFI_PASS"]
                        ELSE get(data, "WIFI_PASS1", <<>>))

\* C5: without a .env file the table is empty, the run does not fail, and it
\* ends having defined 10 empty slot pairs, the empty legacy pair and every
\* fixed key with its documented default.
C5_MissingFileDefaults ==
    ~envFile.exists =>
        /\ DOMAIN data = {}
        /\ pc # "error"
        /\ pc = "done" =>
             /\ Len(CPPDEFINES) = 29
             /\ {CPPDEFINES[p] : p \in 1..Len(CPPDEFINES)} =
                    {[key |-> ssidKey(n), val |-> Quoted(<<>>)] : n \in 1..10}
                      \cup {[key |-> passKey(n), val |-> Quoted(<<>>)] : n \in 1..10}
                      \cup {[key |-> k, val |-> Quoted(<<>>)] : k \in LegacyKeys}
                      \cup {[key |-> k, val |-> Quoted(DocumentedDefault(k))] :
                               k \in FixedKeys \ IntKeys}
                      \cup {[key |-> k, val |-> DocumentedDefault(k)] : k \in IntKeys}

C5_Witness == ~envFile.exists /\ pc = "done"

\* C6: a completed run has at least one define for every key the loader
\* requests, valued from the table or from the key's default.
C6_EveryKeyDefined ==
    pc = "done" =>
        /\ \A n \in 1..WIFI_SLOTS_MAX :
             /\ \E p \in Defs(ssidKey(n)) :
                  CPPDEFINES[p].val = Quoted(get(data, ssidKey(n), <<>>))
             /\ \E p \in Defs(passKey(n)) :
                  CPPDEFINES[p].val = Quoted(get(data, passKey(n), <<>>))
        /\ \E p \in Defs("WIFI_SSID") :
             CPPDEFINES[p].val \in
                 {Quoted(get(data, k, <<>>)) : k \in {"WIFI_SSID", "WIFI_SSID1"}}
        /\ \E p \in Defs("WIFI_PASS") :
             CPPDEFINES[p].val \in
                 {Quoted(get(data, k, <<>>)) : k \in {"WIFI_PASS", "WIFI_PASS1"}}
        /\ \A k \in FixedKeys :
             \E p \in Defs(k) :
                 LET v == get(data, k, DocumentedDefault(k))
                 IN  CPPDEFINES[p].val \in {v, Quoted(v)}

C6_Witness ==
    /\ pc = "done"
    /\ WIFI_SLOTS_MAX = 3
    /\ "DEVICE_ID" \in DOMAIN data

\* C7: MQTT_PORT and BACKEND_PORT are defined with the table's (or default)
\* text verbatim and unquoted, numeric or not; every other define is the
\* value between escaped double quotes.
C7_BareIntsQuotedStrings ==
    pc = "done" =>
        \A p \in 1..Len(CPPDEFINES) :
            LET e == CPPDEFINES[p]
            IN  IF e.key \in IntKeys
                THEN e.val = get(data, e.key, DocumentedDefault(e.key))
                ELSE /\ Len(e.val) >= 4
                     /\ SubSeq(e.val, 1, 2) = <<"\\", "\"">>
                     /\ SubSeq(e.val, Len(e.val) - 1, Len(e.val)) = <<"\\", "\"">>
                     /\ e.key \in FixedKeys =>
                          e.val = Quoted(get(data, e.key, DocumentedDefault(e.key)))

C7_Witness ==
    /\ pc = "done"
    /\ get(data, "MQTT_PORT", <<>>) = <<"abc">>
    /\ "BACKEND_PORT" \notin DOMAIN data

\* C8: a line adds an entry exactly when, trimmed, it is non-empty, does not
\* start with '#' and contains '='; any other line leaves the table as it
\* was; a '#' inside the value is kept.
C8_OnlyLeadingHashComments ==
    [][ (pc = "parse" /\ envFile.exists /\ idx <= Len(envFile.lines)) =>
          LET t == strip(envFile.lines[idx], Whitespace)
              accepted == /\ t # <<>>
                          /\ t[1] # "#"
                          /\ \E p \in 1..Len(t) : t[p] = "="
          IN  IF accepted
              THEN /\ keyOf(t) \in DOMAIN data'
                   /\ Count(data'[keyOf(t)], "#") = Count(split1(t, "=")[2], "#")
              ELSE data' = data ]_vars

C8_Witness ==
    /\ Processed
    /\ ~skips(LastLine)
    /\ contains(LastLine, "#")
    /\ contains(data[keyOf(LastLine)], "#")

\* C9: the returned table holds, for every key of an accepted line, the value
\* of the last accepted line with that key, and holds no other key.
C9_LastLineWins ==
    (Returned /\ envFile.exists) =>
        LET L == envFile.lines
            line(p) == strip(L[p], Whitespace)
            acc == {p \in 1..Len(L) : ~skips(line(p))}
        IN  /\ DOMAIN data = {keyOf(line(p)) : p \in acc}
            /\ \A p \in acc :
                 (\A q \in acc : q > p => keyOf(line(q)) # keyOf(line(p)))
                     => data[keyOf(line(p))] = valueOf(line(p))

C9_Witness ==
    /\ Returned
    /\ envFile.exists
    /\ \E p, q \in 1..Len(envFile.lines) :
         LET lp == strip(envFile.lines[p], Whitespace)
             lq == strip(envFile.lines[q], Whitespace)
         IN  /\ p < q
             /\ ~skips(lp)
             /\ ~skips(lq)
             /\ keyOf(lp) = keyOf(lq)
             /\ valueOf(lp) # valueOf(lq)
             /\ data[keyOf(lq)] = valueOf(lq)

\* C10: an accepted line is split at its first '=': the key is the trimmed
\* text before it and every later '=' stays in the value.
C10_SplitAtFirstEquals ==
    (Processed /\ ~skips(LastLine)) =>
        LET t == LastLine
            q == CHOOSE p \in 1..Len(t) :
                     t[p] = "=" /\ \A r \in 1..(p - 1) : t[r] # "="
            k == Join(strip(SubSeq(t, 1, q - 1), Whitespace))
        IN  /\ k \in DOMAIN data
            /\ Count(data[k], "=") = Count(t, "=") - 1
            /\ data[k] = strip(strip(strip(SubSeq(t, q + 1, Len(t)), Whitespace),
                                     {"\""}), {"'"})

C10_Witness ==
    /\ Processed
    /\ ~skips(LastLine)
    /\ Count(LastLine, "=") >= 2
    /\ Count(data[keyOf(LastLine)], "=") >= 1

====
